---- MODULE Spec2Model ----
(***************************************************************************)
(* A model of pacaptr's error reporting (src/error.rs), package-manager    *)
(* dispatch (src/dispatch/mod.rs) and the Conda / Unknown package-manager  *)
(* definitions (src/pm/conda.rs, src/pm/unknown.rs).                       *)
(*                                                                         *)
(* Three specifications share the module:                                  *)
(*   SpecReport   - main returns an Error and MainError::report turns it   *)
(*                  into the process exit code;                            *)
(*   SpecDispatch - From<Config> for Box<dyn Pm> on a host;                *)
(*   Spec         - operation calls on a Conda or Unknown instance, going  *)
(*                  through the facade (run / run_with / search_regex).    *)
(***************************************************************************)
EXTENDS Integers, Sequences, FiniteSets, TLC

VARIABLES
    \* ---- SpecReport
    err,        \* the Error main returned, or NoError
    exitCode,   \* <<c>> once report produced ExitCode c, <<>> before
    \* ---- SpecDispatch
    host,       \* [os, exes, test]: target OS, executables is_exe finds, cfg(test)
    inCfg,      \* <<cfg>>: the Config handed to From<Config>; <<>> before
    inst,       \* <<p>>: the Box<dyn Pm> produced; <<>> before
    consulted,  \* whether detect_pm_str was called
    \* ---- SpecPm
    pm,         \* the instance operations are called on
    call,       \* <<[op, kws, flags]>>: the logical operation invoked; <<>> before
    plan,       \* what the handler does: [err, reqs], reqs the facade requests in order
    attempt,    \* how many times the logical operation was invoked so far
    started,    \* number of facade requests of this attempt that began
    finished,   \* number of them that returned
    running,    \* indices of the requests whose subprocess is alive
    spawned,    \* log of [attempt, idx, argv]: every subprocess spawned
    printed,    \* log of [attempt, idx, line]: every dry-run line printed
    output,     \* stdout lines captured from the last subprocess that exited
    shown,      \* lines search_regex printed in this attempt
    result      \* the handler's Result of this attempt

reportVars == <<err, exitCode>>
dispatchVars == <<host, inCfg, inst, consulted>>
pmVars ==
    <<pm, call, plan, attempt, started, finished, running, spawned, printed,
      output, shown, result>>
vars == <<reportVars, dispatchVars, pmVars>>

-----------------------------------------------------------------------------
(* Bounds of the model.                                                    *)

\* CmdStatusCodeError codes are drawn from -MaxCode .. MaxCode.
MaxCode == 300
\* Longest keyword list a caller supplies.
MaxKws == 2
\* Longest flag list a caller supplies.
MaxFlags == 1
\* Most lines a subprocess prints.
MaxLines == 2
\* How many times a caller invokes the same logical operation.
MaxCalls == 2

-----------------------------------------------------------------------------
(* src/error.rs                                                            *)

\* The variants of Error that carry no exit code.
PlainErrorKinds ==
    { "ArgParseError", "ConfigError", "CmdJoinError", "CmdSpawnError",
      "CmdNoHandleError", "CmdWaitError", "CmdInterruptedError",
      "FromUtf8Error", "IoError", "OperationUnimplementedError", "OtherError" }

\* StatusCode is a signed integer wider than u8 (the cast in report needs
\* both cast_sign_loss and cast_possible_truncation allowed).
StatusCodes == (-MaxCode) .. MaxCode

CmdStatusCodeError(code) == [kind |-> "CmdStatusCodeError", code |-> code]
PlainError(kind) == [kind |-> kind]
OperationUnimplementedError(op, name) ==
    [kind |-> "OperationUnimplementedError", op |-> op, pm |-> name]

\* `x as u8` on a signed integer keeps the low eight bits.
AsU8(x) == x % 256

ReportIgnoresCode(e) == 1

ReportInterruptedAsSignal(e) ==
    IF e.kind = "CmdStatusCodeError" THEN AsU8(e.code)
    ELSE IF e.kind = "CmdInterruptedError" THEN 130
    ELSE 1

\* impl Termination for MainError: report.
Report(e) ==
    IF e.kind = "CmdStatusCodeError" THEN AsU8(e.code) ELSE 1

NoError == [kind |-> "none"]

ReportIdle == err = NoError /\ exitCode = <<>>

\* main returns Err(e): any Error value; a CmdStatusCodeError is built by the
\* executor for a non-zero exit only.
MainFails ==
    /\ err = NoError
    /\ \/ \E c \in StatusCodes \ {0} : err' = CmdStatusCodeError(c)
       \/ \E k \in PlainErrorKinds : err' = PlainError(k)
    /\ UNCHANGED <<exitCode, dispatchVars, pmVars>>

\* The runtime calls MainError::report on the returned error.
MainReports ==
    /\ err # NoError
    /\ exitCode = <<>>
    /\ exitCode' = <<Report(err)>>
    /\ UNCHANGED <<err, dispatchVars, pmVars>>

-----------------------------------------------------------------------------
(* Config, src/dispatch/mod.rs and src/pm/unknown.rs                       *)

None == <<>>
Some(x) == <<x>>

ElevationCmds == {"sudo", "doas"}

\* Config::default(): nothing set.
ConfigDefault ==
    [default_pm |-> None, dry_run |-> FALSE, no_confirm |-> FALSE,
     needed |-> FALSE, elevation_cmd |-> "sudo"]

\* The (name, path) pairs of detect_pm_str, by target_os, in order.
PriorityList(os) ==
    CASE os = "windows" -> <<"scoop", "choco">>
      [] os = "macos"   -> <<"brew", "port">>
      [] os = "linux"   -> <<"apk", "apt", "emerge", "dnf", "zypper">>
      [] OTHER          -> <<>>

\* is_exe(name, path): whether the executable is found on the host.
is_exe(h, name) == name \in h.exes

detect_pm_str_last(h) ==
    LET pairs == PriorityList(h.os)
        hits  == {i \in 1..Len(pairs) : is_exe(h, pairs[i])}
    IN  IF hits = {} THEN "unknown"
        ELSE pairs[CHOOSE i \in hits : \A j \in hits : j <= i]

\* detect_pm_str: the first pair whose executable exists, else "unknown".
detect_pm_str(h) ==
    LET pairs == PriorityList(h.os)
        hits  == {i \in 1..Len(pairs) : is_exe(h, pairs[i])}
    IN  IF hits = {} THEN "unknown"
        ELSE pairs[CHOOSE i \in hits : \A j \in hits : i <= j]

\* Unknown::new(name): the name is wrapped, the Config is Config::default().
UnknownNew(x) ==
    [kind |-> "Unknown", name |-> "unknown package manager: " \o x,
     cfg |-> ConfigDefault]

\* Conda::new(cfg) / Conda { cfg }.
CondaNew(cfg) == [kind |-> "Conda", cfg |-> cfg]

\* The struct a match arm of From<Config> builds for pm name x.
Boxed(x, cfg, h) ==
    CASE x = "choco"  -> [kind |-> "Chocolatey", cfg |-> cfg]
      [] x = "scoop"  -> [kind |-> "Scoop", cfg |-> cfg]
      [] x = "brew"   -> [kind |-> "Homebrew", cfg |-> cfg]
      [] x = "port" /\ h.os = "macos" -> [kind |-> "Macports", cfg |-> cfg]
      [] x = "emerge" -> [kind |-> "Portage", cfg |-> cfg]
      [] x = "apk"    -> [kind |-> "Apk", cfg |-> cfg]
      [] x = "apt"    -> [kind |-> "Apt", cfg |-> cfg]
      [] x = "dnf"    -> [kind |-> "Dnf", cfg |-> cfg]
      [] x = "zypper" -> [kind |-> "Zypper", cfg |-> cfg]
      [] x = "conda"  -> CondaNew(cfg)
      [] x = "pip"    -> [kind |-> "Pip", cmd |-> "pip", cfg |-> cfg]
      [] x = "pip3"   -> [kind |-> "Pip", cmd |-> "pip3", cfg |-> cfg]
      [] x = "tlmgr"  -> [kind |-> "Tlmgr", cfg |-> cfg]
      [] x = "mockpm" /\ h.test -> [kind |-> "MockPm", cfg |-> cfg]
      [] OTHER        -> UnknownNew(x)

\* From<Config> for Box<dyn Pm>: [pm: the instance, detected: whether
\* detect_pm_str ran (unwrap_or_else calls it only for None)].
FromConfig(cfg, h) ==
    LET detected == cfg.default_pm = None
        x == IF detected THEN detect_pm_str(h) ELSE cfg.default_pm[1]
    IN  [pm |-> Boxed(x, cfg, h), detected |-> detected]

\* Names a Config may carry in default_pm.
PmNames ==
    { "choco", "scoop", "brew", "port", "emerge", "apk", "apt", "dnf",
      "zypper", "conda", "pip", "pip3", "tlmgr", "mockpm", "unknown", "yum" }

Configs ==
    [default_pm : {None} \cup {Some(n) : n \in PmNames},
     dry_run : BOOLEAN, no_confirm : BOOLEAN, needed : BOOLEAN,
     elevation_cmd : ElevationCmds]

OSes == {"windows", "macos", "linux", "other"}

Range(s) == {s[i] : i \in 1..Len(s)}

Hosts ==
    UNION {[os : {o}, exes : SUBSET Range(PriorityList(o)), test : BOOLEAN] : o \in OSes}

DispatchIdle == inCfg = <<>> /\ inst = <<>> /\ consulted = FALSE

\* The process turns its Config into the Pm instance.
Dispatch ==
    /\ inst = <<>>
    /\ \E cfg \in Configs :
         LET r == FromConfig(cfg, host)
         IN  /\ inCfg' = <<cfg>>
             /\ inst' = <<r.pm>>
             /\ consulted' = r.detected
    /\ UNCHANGED <<host, reportVars, pmVars>>

-----------------------------------------------------------------------------
(* The facade: Cmd, Strategy and the mediation pipeline                    *)

\* Cmd::new(cmd).kws(kws).flags(flags): program and base arguments, then
\* keywords, then flags.
CmdNew(cmd) == [cmd |-> cmd, kws |-> <<>>, flags |-> <<>>]
WithKws(c, kws) == [c EXCEPT !.kws = @ \o kws]
WithFlags(c, flags) == [c EXCEPT !.flags = @ \o flags]

\* The argument sequence of a Cmd.
Argv(c) == c.cmd \o c.kws \o c.flags

RECURSIVE Join(_)
\* The display string of an argument sequence: its elements, space-separated.
Join(args) ==
    IF args = <<>> THEN ""
    ELSE IF Len(args) = 1 THEN args[1]
    ELSE args[1] \o " " \o Join(Tail(args))

PromptNone == [kind |-> "None", flags |-> <<>>]
NativeNoConfirm(flags) == [kind |-> "NativeNoConfirm", flags |-> flags]
NativeConfirm == [kind |-> "NativeConfirm", flags |-> <<>>]
CustomConfirm == [kind |-> "CustomConfirm", flags |-> <<>>]

\* Strategy::default().
StrategyDefault == [prompt |-> PromptNone, elevation |-> FALSE]

\* PmMode::default(): no override of the execution mode.
PmModeDefault == "Default"

\* The execution mode: CheckDryRun when the operation forces it, else DryRun
\* under the global dry_run flag, else Run.
Mode(cfg, override) ==
    IF override = "CheckDryRun" THEN "CheckDryRun"
    ELSE IF cfg.dry_run THEN "DryRun" ELSE "Run"

\* Step 1: elevation wrapping prefixes the privilege-escalation program.
Elevate(c, strat, cfg) ==
    IF strat.elevation THEN [c EXCEPT !.cmd = <<cfg.elevation_cmd>> \o @] ELSE c

\* Step 2: NativeNoConfirm appends its flags; the other prompts add nothing.
PromptFlags(c, strat) ==
    IF strat.prompt.kind = "NativeNoConfirm"
    THEN [c EXCEPT !.flags = @ \o strat.prompt.flags] ELSE c

\* The Cmd the execution-mode gate sees.
Mediate(c, strat, cfg) == PromptFlags(Elevate(c, strat, cfg), strat)

RenderBare(c, strat, cfg) == Join(Argv(c))

\* Step 3, DryRun: the line printed for a request's Cmd.
Render(c, strat, cfg) == Join(Argv(Mediate(c, strat, cfg)))

\* Answers typed at a CustomConfirm prompt; y, yes and the empty line are
\* affirmative, case-insensitively.
Answers == {"", "y", "Y", "yes", "n"}
Lower(a) == IF a = "Y" THEN "y" ELSE a
Affirmative(a) == Lower(a) \in {"", "y", "yes"}

\* The facade's entry points, as the request a handler awaits.
\* run(cmd): prompt None under no_confirm, the tool's own prompt otherwise.
Run(cmd, cfg) ==
    [entry |-> "run", cmd |-> cmd, mode |-> PmModeDefault,
     strat |-> [StrategyDefault EXCEPT
                  !.prompt = IF cfg.no_confirm THEN PromptNone ELSE NativeConfirm],
     pats |-> <<>>]
RunWith(cmd, mode, strat) ==
    [entry |-> "run_with", cmd |-> cmd, mode |-> mode, strat |-> strat, pats |-> <<>>]
SearchRegex(cmd, pats) ==
    [entry |-> "search_regex", cmd |-> cmd, mode |-> PmModeDefault,
     strat |-> StrategyDefault, pats |-> pats]

\* A captured output line is the sequence of its words; a keyword matches a
\* line that has it as a word.
Matches(kw, line) == \E i \in 1..Len(line) : line[i] = kw

\* search_regex's filter: the lines that match every pattern, in order.
Search(lines, pats) ==
    LET Keep(line) == \A i \in 1..Len(pats) : Matches(pats[i], line)
    IN  SelectSeq(lines, Keep)

\* A default method of the Pm trait: the operation is not implemented.
PmDefault(op, name) ==
    [err |-> OperationUnimplementedError(op, name), reqs |-> <<>>]

Handled(reqs) == [err |-> NoError, reqs |-> reqs]

-----------------------------------------------------------------------------
(* crates/pacaptr-macros/src/compat_table.rs, src/pm/conda.rs,             *)
(* src/pm/unknown.rs                                                       *)

\* The operations of the Pm trait.
METHODS ==
    { "q", "qc", "qe", "qi", "qk", "ql", "qm", "qo", "qp", "qs", "qu", "r", "rn",
      "rns", "rs", "rss", "s", "sc", "scc", "sccc", "sg", "si", "sii", "sl",
      "ss", "su", "suy", "sw", "sy", "u" }

\* Pm::name.
Name(p) == IF p.kind = "Conda" THEN "conda" ELSE p.name

STRAT_PROMPT_unset == StrategyDefault

\* static STRAT_PROMPT.
STRAT_PROMPT == [StrategyDefault EXCEPT !.prompt = NativeNoConfirm(<<"-y">>)]

CondaQsFirstOnly(self, kws, flags) ==
    <<SearchRegex(WithFlags(CmdNew(<<"conda", "list">>), flags),
                  IF kws = <<>> THEN kws ELSE <<kws[1]>>)>>

CondaQs(self, kws, flags) ==
    <<SearchRegex(WithFlags(CmdNew(<<"conda", "list">>), flags), kws)>>

CondaQ(self, kws, flags) ==
    IF kws = <<>>
    THEN <<Run(WithFlags(CmdNew(<<"conda", "list">>), flags), self.cfg)>>
    ELSE CondaQs(self, kws, flags)

CondaQoNoFlags(self, kws, flags) ==
    <<Run(WithKws(CmdNew(<<"conda", "package", "--which">>), kws), self.cfg)>>

CondaQo(self, kws, flags) ==
    <<Run(WithFlags(WithKws(CmdNew(<<"conda", "package", "--which">>), kws), flags),
          self.cfg)>>

CondaR(self, kws, flags) ==
    <<RunWith(WithFlags(WithKws(CmdNew(<<"conda", "remove">>), kws), flags),
              PmModeDefault, STRAT_PROMPT)>>

CondaS(self, kws, flags) ==
    <<RunWith(WithFlags(WithKws(CmdNew(<<"conda", "install">>), kws), flags),
              PmModeDefault, STRAT_PROMPT)>>

\* sc takes _kws and does not use it.
CondaSc(self, kws, flags) ==
    <<RunWith(WithFlags(CmdNew(<<"conda", "clean", "--all">>), flags),
              PmModeDefault, STRAT_PROMPT)>>

CondaSi(self, kws, flags) ==
    <<Run(WithFlags(WithKws(CmdNew(<<"conda", "search", "--info">>), kws), flags),
          self.cfg)>>

\* ss: one `conda search *kw*` request per keyword, in keyword order.
CondaSs(self, kws, flags) ==
    [i \in 1..Len(kws) |->
        Run(WithFlags(WithKws(CmdNew(<<"conda", "search">>),
                              <<"*" \o kws[i] \o "*">>), flags), self.cfg)]

CondaSu(self, kws, flags) ==
    <<RunWith(WithFlags(WithKws(CmdNew(<<"conda", "update", "--all">>), kws), flags),
              PmModeDefault, STRAT_PROMPT)>>

CondaSuy(self, kws, flags) == CondaSu(self, kws, flags)

CondaWithU(self, op, kws, flags) ==
    CASE op = "q"   -> Handled(CondaQ(self, kws, flags))
      [] op = "qo"  -> Handled(CondaQo(self, kws, flags))
      [] op = "qs"  -> Handled(CondaQs(self, kws, flags))
      [] op = "r"   -> Handled(CondaR(self, kws, flags))
      [] op = "s"   -> Handled(CondaS(self, kws, flags))
      [] op = "sc"  -> Handled(CondaSc(self, kws, flags))
      [] op = "si"  -> Handled(CondaSi(self, kws, flags))
      [] op = "ss"  -> Handled(CondaSs(self, kws, flags))
      [] op = "su"  -> Handled(CondaSu(self, kws, flags))
      [] op = "suy" -> Handled(CondaSuy(self, kws, flags))
      [] op = "u"   -> Handled(CondaSu(self, kws, flags))
      [] OTHER      -> PmDefault(op, Name(self))

\* impl Pm for Conda: the ten operations it defines; the rest are the
\* trait's defaults.
Conda(self, op, kws, flags) ==
    CASE op = "q"   -> Handled(CondaQ(self, kws, flags))
      [] op = "qo"  -> Handled(CondaQo(self, kws, flags))
      [] op = "qs"  -> Handled(CondaQs(self, kws, flags))
      [] op = "r"   -> Handled(CondaR(self, kws, flags))
      [] op = "s"   -> Handled(CondaS(self, kws, flags))
      [] op = "sc"  -> Handled(CondaSc(self, kws, flags))
      [] op = "si"  -> Handled(CondaSi(self, kws, flags))
      [] op = "ss"  -> Handled(CondaSs(self, kws, flags))
      [] op = "su"  -> Handled(CondaSu(self, kws, flags))
      [] op = "suy" -> Handled(CondaSuy(self, kws, flags))
      [] OTHER      -> PmDefault(op, Name(self))

\* impl Pm for Unknown: name and cfg only; every operation is the default.
Unknown(self, op, kws, flags) == PmDefault(op, Name(self))

\* The handler a call on the trait object reaches.
Handler(self, op, kws, flags) ==
    IF self.kind = "Conda" THEN Conda(self, op, kws, flags)
    ELSE Unknown(self, op, kws, flags)

StartableConcurrent(n, nStarted, nFinished, settled) ==
    IF settled \/ nStarted >= n THEN {} ELSE {nStarted + 1}

\* try_for_each over the handler's requests: the next one begins when every
\* earlier one returned Ok; none begins after an error.
Startable(n, nStarted, nFinished, settled) ==
    IF settled \/ nStarted # nFinished \/ nStarted >= n THEN {} ELSE {nStarted + 1}

-----------------------------------------------------------------------------
(* Operation calls                                                         *)

Pending == [kind |-> "Pending"]
Ok == [kind |-> "Ok"]
Declined == [kind |-> "Declined"]
\* Err(e) returned by the handler; at is the request that failed (0: none began).
Err(e, i) == [kind |-> "Err", error |-> e, at |-> i]

BSeq(S, n) == UNION {[1..k -> S] : k \in 0..n}

Keywords == {"foo", "bar"}
FlagWords == {"-y", "--json"}
KwLists == BSeq(Keywords, MaxKws)
FlagLists == BSeq(FlagWords, MaxFlags)

Lines == {<<"foo", "bar">>, <<"foo">>, <<"bar">>, <<"zsh">>}
Outputs == BSeq(Lines, MaxLines)

ExitCodes == {0, 1, 7}

\* How a spawned subprocess ends, with the stdout captured from it.
Outcomes(req) ==
    [how : {"exit"}, code : ExitCodes \ {0}, out : {<<>>}]
    \cup [how : {"exit"}, code : {0},
          out : IF req.entry = "search_regex" THEN Outputs ELSE {<<>>}]
    \cup [how : {"signal", "wait_failed"}, code : {0}, out : {<<>>}]

\* The executor's mapping of a subprocess outcome to the error it reports
\* (NoError: success).
ExecError(o) ==
    CASE o.how = "signal"      -> PlainError("CmdInterruptedError")
      [] o.how = "wait_failed" -> PlainError("CmdWaitError")
      [] o.code # 0            -> CmdStatusCodeError(o.code)
      [] OTHER                 -> NoError

\* Strategies and mode overrides a package-manager definition may pass.
Strategies ==
    [prompt : {PromptNone, NativeNoConfirm(<<"--yes">>), NativeConfirm, CustomConfirm},
     elevation : BOOLEAN]
ModeOverrides == {PmModeDefault, "CheckDryRun"}

\* Conda is reached through default_pm only (detect_pm_str never names it).
PmInstances ==
    {CondaNew(c) : c \in [default_pm : {Some("conda")}, dry_run : BOOLEAN,
                          no_confirm : BOOLEAN, needed : {FALSE},
                          elevation_cmd : ElevationCmds]}
    \cup {UnknownNew(x) : x \in {"unknown", "yum"}}

PmIdle ==
    /\ call = <<>>
    /\ plan = Handled(<<>>)
    /\ attempt = 0 /\ started = 0 /\ finished = 0
    /\ running = {}
    /\ spawned = <<>> /\ printed = <<>> /\ output = <<>> /\ shown = <<>>
    /\ result = Pending

\* The handler runs up to its first await on the facade.
Enter(p) ==
    /\ plan' = p
    /\ started' = 0 /\ finished' = 0 /\ running' = {}
    /\ output' = <<>> /\ shown' = <<>>
    /\ result' = IF p.err # NoError THEN Err(p.err, 0)
                 ELSE IF p.reqs = <<>> THEN Ok ELSE Pending

\* The caller invokes one of the 30 operations on the instance.
Call ==
    /\ call = <<>>
    /\ \E op \in METHODS, kws \in KwLists, flags \in FlagLists :
         /\ call' = <<[op |-> op, kws |-> kws, flags |-> flags]>>
         /\ Enter(Handler(pm, op, kws, flags))
    /\ attempt' = 1
    /\ UNCHANGED <<pm, spawned, printed, reportVars, dispatchVars>>

\* A package-manager definition calls run_with directly with a strategy and
\* mode override of its own.
FacadeCall ==
    /\ call = <<>>
    /\ \E kws \in KwLists, flags \in FlagLists, mode \in ModeOverrides,
          strat \in Strategies :
         /\ call' = <<[op |-> "run_with", kws |-> kws, flags |-> flags]>>
         /\ Enter(Handled(<<RunWith(
                WithFlags(WithKws(CmdNew(<<"apt", "install">>), kws), flags),
                mode, strat)>>))
    /\ attempt' = 1
    /\ UNCHANGED <<pm, spawned, printed, reportVars, dispatchVars>>

\* The caller invokes the same operation with the same arguments again.
Again ==
    /\ call # <<>>
    /\ call[1].op \in METHODS
    /\ result # Pending
    /\ running = {}
    /\ attempt < MaxCalls
    /\ attempt' = attempt + 1
    /\ Enter(Handler(pm, call[1].op, call[1].kws, call[1].flags))
    /\ UNCHANGED <<pm, call, spawned, printed, reportVars, dispatchVars>>

\* The next facade request of the handler begins: prompt, then the
\* execution-mode gate, then the spawn.
Begin ==
    /\ call # <<>>
    /\ \E i \in Startable(Len(plan.reqs), started, finished, result # Pending) :
        LET req  == plan.reqs[i]
            mode == Mode(pm.cfg, req.mode)
            asks == req.strat.prompt.kind = "CustomConfirm"
        IN  \E a \in IF asks THEN Answers ELSE {""} :
            \E canSpawn \in IF mode # "DryRun" /\ (asks => Affirmative(a))
                             THEN BOOLEAN ELSE {TRUE} :
              /\ started' = started + 1
              /\ IF asks /\ ~Affirmative(a)
                 THEN /\ result' = Declined
                      /\ finished' = finished + 1
                      /\ UNCHANGED <<printed, spawned, running>>
                 ELSE IF mode = "DryRun"
                 THEN /\ printed' = Append(printed,
                            [attempt |-> attempt, idx |-> i,
                             line |-> Render(req.cmd, req.strat, pm.cfg)])
                      /\ finished' = finished + 1
                      /\ result' = IF finished' = Len(plan.reqs) THEN Ok ELSE Pending
                      /\ UNCHANGED <<spawned, running>>
                 ELSE IF ~canSpawn
                 THEN /\ result' = Err(PlainError("CmdSpawnError"), i)
                      /\ finished' = finished + 1
                      /\ UNCHANGED <<printed, spawned, running>>
                 ELSE /\ spawned' = Append(spawned,
                            [attempt |-> attempt, idx |-> i,
                             argv |-> Argv(Mediate(req.cmd, req.strat, pm.cfg))])
                      /\ running' = running \cup {i}
                      /\ UNCHANGED <<printed, finished, result>>
    /\ UNCHANGED <<pm, call, plan, attempt, output, shown, reportVars, dispatchVars>>

\* A subprocess ends and its request returns to the handler.
Exit ==
    /\ \E i \in running :
        \E o \in Outcomes(plan.reqs[i]) :
          LET req == plan.reqs[i]
              e   == ExecError(o)
          IN  /\ running' = running \ {i}
              /\ finished' = finished + 1
              /\ output' = o.out
              /\ shown' = IF e = NoError /\ req.entry = "search_regex"
                          THEN shown \o Search(o.out, req.pats) ELSE shown
              /\ result' = IF result # Pending THEN result
                           ELSE IF e # NoError THEN Err(e, i)
                           ELSE IF finished' = Len(plan.reqs) THEN Ok ELSE Pending
    /\ UNCHANGED <<pm, call, plan, attempt, started, spawned, printed,
                   reportVars, dispatchVars>>

-----------------------------------------------------------------------------
(* Specifications                                                          *)

IdleHost == [os |-> "linux", exes |-> {}, test |-> FALSE]

InitReport ==
    /\ ReportIdle
    /\ host = IdleHost /\ DispatchIdle
    /\ pm = UnknownNew("unknown") /\ PmIdle
NextReport == MainFails \/ MainReports
SpecReport == InitReport /\ [][NextReport]_vars

InitDispatch ==
    /\ ReportIdle
    /\ host \in Hosts /\ DispatchIdle
    /\ pm = UnknownNew("unknown") /\ PmIdle
NextDispatch == Dispatch
SpecDispatch == InitDispatch /\ [][NextDispatch]_vars

Init ==
    /\ ReportIdle
    /\ host = IdleHost /\ DispatchIdle
    /\ pm \in PmInstances /\ PmIdle
Next == Call \/ FacadeCall \/ Again \/ Begin \/ Exit
Spec == Init /\ [][Next]_vars

-----------------------------------------------------------------------------
(* Properties: error reporting (SpecReport)                                *)

Reported == err # NoError /\ exitCode # <<>>

\* C1 (as stated): whenever report has run on a CmdStatusCodeError carrying
\* code c, the exit code it produced equals c, for every c StatusCode holds.
C1_ExitCodeEqualsCode ==
    (Reported /\ err.kind = "CmdStatusCodeError") => exitCode[1] = err.code

\* C1 (amended): the exit code report produces for CmdStatusCodeError { code: c }
\* is the low byte of c: it lies in 0..255 and differs from c by a multiple of
\* 256, hence equals c exactly whenever 0 <= c <= 255 (7 is reported as 7).
C1_ExitCodeIsLowByteOfCode ==
    (Reported /\ err.kind = "CmdStatusCodeError") =>
        /\ exitCode[1] \in 0..255
        /\ (err.code - exitCode[1]) % 256 = 0
        /\ (err.code \in 0..255 => exitCode[1] = err.code)

\* C1 witness: a subprocess exit code of 7 was reported as exit code 7.
C1_Witness == err = CmdStatusCodeError(7) /\ exitCode = <<7>>

\* C2: whenever report has run on an error that is not CmdStatusCodeError, the
\* exit code is 1; CmdInterruptedError is such an error, so an interrupted
\* subprocess never takes the exit-code passthrough branch.
C2_OtherErrorsExitWithOne ==
    (Reported /\ err.kind # "CmdStatusCodeError") =>
        /\ err.kind \in PlainErrorKinds
        /\ exitCode = <<1>>

\* C2 witness: an interrupted subprocess was reported with exit code 1.
C2_Witness == err.kind = "CmdInterruptedError" /\ exitCode = <<1>>

-----------------------------------------------------------------------------
(* Properties: dispatch (SpecDispatch)                                     *)

Dispatched == inCfg # <<>> /\ inst # <<>>

\* C4 (as stated): the instance From<Config> produces holds the Config it was
\* given: its cfg() has the same dry_run, no_confirm, needed and default_pm,
\* whichever name is resolved.
C4_InstanceHoldsGivenConfig ==
    Dispatched =>
        /\ inst[1].cfg.dry_run = inCfg[1].dry_run
        /\ inst[1].cfg.no_confirm = inCfg[1].no_confirm
        /\ inst[1].cfg.needed = inCfg[1].needed
        /\ inst[1].cfg.default_pm = inCfg[1].default_pm

\* The manager each recognised name selects.
ManagerOf ==
    [n \in { "choco", "scoop", "brew", "port", "emerge", "apk", "apt", "dnf",
             "zypper", "conda", "pip", "pip3", "tlmgr", "mockpm" } |->
        CASE n = "choco" -> "Chocolatey" [] n = "scoop" -> "Scoop"
          [] n = "brew" -> "Homebrew"    [] n = "port" -> "Macports"
          [] n = "emerge" -> "Portage"   [] n = "apk" -> "Apk"
          [] n = "apt" -> "Apt"          [] n = "dnf" -> "Dnf"
          [] n = "zypper" -> "Zypper"    [] n = "conda" -> "Conda"
          [] n = "pip" -> "Pip"          [] n = "pip3" -> "Pip"
          [] n = "tlmgr" -> "Tlmgr"      [] n = "mockpm" -> "MockPm"]

\* C10: dispatch yields exactly one instance. The name it goes by is
\* default_pm when set (detection is then not consulted), else the first
\* entry of the platform's priority list whose executable exists, else
\* "unknown"; a recognised name yields its manager ("port" on macOS only,
\* "mockpm" in test builds only) and any other name x yields Unknown named
\* "unknown package manager: x".
C10_DispatchRule ==
    Dispatched =>
        LET cfg  == inCfg[1]
            p    == inst[1]
            list == IF host.os = "linux"
                      THEN <<"apk", "apt", "emerge", "dnf", "zypper">>
                    ELSE IF host.os = "macos" THEN <<"brew", "port">>
                    ELSE IF host.os = "windows" THEN <<"scoop", "choco">>
                    ELSE <<>>
            found == {i \in 1..Len(list) : list[i] \in host.exes}
            x    == IF cfg.default_pm # <<>> THEN cfg.default_pm[1]
                    ELSE IF found = {} THEN "unknown"
                    ELSE list[CHOOSE i \in found : \A j \in found : i <= j]
            known == (DOMAIN ManagerOf)
                        \ ((IF host.os = "macos" THEN {} ELSE {"port"})
                            \cup (IF host.test THEN {} ELSE {"mockpm"}))
        IN  /\ Len(inst) = 1
            /\ consulted = (cfg.default_pm = <<>>)
            /\ IF x \in known
               THEN /\ p.kind = ManagerOf[x]
                    /\ p.kind = "Pip" => p.cmd = x
               ELSE /\ p.kind = "Unknown"
                    /\ p.name = "unknown package manager: " \o x

\* C10 witness: on Linux with apt and dnf installed but not apk, and no
\* default_pm, dispatch produced Apt.
C10_Witness ==
    /\ Dispatched
    /\ host.os = "linux" /\ host.exes = {"apt", "dnf"}
    /\ inCfg[1].default_pm = <<>>
    /\ inst[1].kind = "Apt"

-----------------------------------------------------------------------------
(* Properties: operation calls (Spec)                                      *)

Called == call # <<>>
OnConda == Called /\ pm.kind = "Conda" /\ call[1].op \in METHODS
OnUnknown == Called /\ pm.kind = "Unknown" /\ call[1].op \in METHODS

\* The entries of a log made by the current attempt.
ThisAttempt(log) ==
    LET Mine(e) == e.attempt = attempt IN SelectSeq(log, Mine)

Count(seq, x) == Cardinality({i \in 1..Len(seq) : seq[i] = x})

\* C3: an operation the definition does not implement - any of the 30 on
\* Unknown, any outside {q, qo, qs, r, s, sc, si, ss, su, suy} on Conda -
\* returns OperationUnimplementedError with the operation's and the manager's
\* name, and neither spawns nor prints anything.
C3_UnimplementedIsReported ==
    (\/ OnUnknown
     \/ OnConda /\ call[1].op \notin
            {"q", "qo", "qs", "r", "s", "sc", "si", "ss", "su", "suy"}) =>
        /\ result.kind = "Err"
        /\ result.error.kind = "OperationUnimplementedError"
        /\ result.error.op = call[1].op
        /\ result.error.pm = (IF pm.kind = "Conda" THEN "conda" ELSE pm.name)
        /\ started = 0 /\ running = {}
        /\ spawned = <<>> /\ printed = <<>>

\* C3 witness: `u` was called on Conda and came back unimplemented.
C3_Witness ==
    /\ OnConda /\ call[1].op = "u"
    /\ result = Err(OperationUnimplementedError("u", "conda"), 0)

\* C5: for Conda r, s, sc, su and suy, however often the operation is
\* invoked, every command line it yields (spawned or dry-run printed) is the
\* handler's invocation followed by one "-y": the strategy adds exactly one
\* "-y" to the user's own arguments, and each invocation yields at most one
\* command line.
C5_NoConfirmFlagOncePerCall ==
    (OnConda /\ call[1].op \in {"r", "s", "sc", "su", "suy"}) =>
        LET user == (IF call[1].op = "sc" THEN <<>> ELSE call[1].kws) \o call[1].flags
            Passed(e) == Argv(plan.reqs[e.idx].cmd)
        IN  /\ \A i \in 1..Len(spawned) :
                 /\ spawned[i].argv = Passed(spawned[i]) \o <<"-y">>
                 /\ Count(spawned[i].argv, "-y") = Count(user, "-y") + 1
            /\ \A i \in 1..Len(printed) :
                 printed[i].line = Join(Passed(printed[i]) \o <<"-y">>)
            /\ \A a \in 1..attempt :
                 Cardinality({i \in 1..Len(spawned) : spawned[i].attempt = a})
                 + Cardinality({i \in 1..Len(printed) : printed[i].attempt = a}) <= 1

\* C5 witness: `conda remove` was spawned by two successive invocations.
C5_Witness ==
    /\ OnConda /\ call[1].op = "r" /\ attempt = 2
    /\ Len(spawned) = 2
    /\ spawned[1].argv = spawned[2].argv
    /\ Count(spawned[2].argv, "-y") = 1

\* The argument sequence the pipeline owes a request: the elevation program
\* if elevated, the invocation, then the NativeNoConfirm flags.
ExpectedArgv(req) ==
    (IF req.strat.elevation THEN <<pm.cfg.elevation_cmd>> ELSE <<>>)
    \o req.cmd.cmd \o req.cmd.kws \o req.cmd.flags
    \o (IF req.strat.prompt.kind = "NativeNoConfirm" THEN req.strat.prompt.flags
        ELSE <<>>)

\* C6: a request whose execution mode is DryRun never spawns, and the line
\* it prints renders exactly the argument sequence Run mode spawns for the
\* same request: elevation prefix, invocation, NativeNoConfirm flags.
C6_DryRunShowsWhatRunSpawns ==
    Called =>
        /\ \A i \in 1..Len(spawned) :
             /\ Mode(pm.cfg, plan.reqs[spawned[i].idx].mode) # "DryRun"
             /\ spawned[i].argv = ExpectedArgv(plan.reqs[spawned[i].idx])
        /\ \A i \in 1..Len(printed) :
             /\ Mode(pm.cfg, plan.reqs[printed[i].idx].mode) = "DryRun"
             /\ printed[i].line = Join(ExpectedArgv(plan.reqs[printed[i].idx]))
        /\ \A i \in running : Mode(pm.cfg, plan.reqs[i].mode) # "DryRun"
        /\ \A i \in 1..Len(plan.reqs) :
             (Mode(pm.cfg, plan.reqs[i].mode) = "DryRun" /\ result = Ok) =>
                 \E j \in 1..Len(printed) :
                     printed[j].idx = i /\ printed[j].attempt = attempt

\* C6 witness: under dry_run an elevated NativeNoConfirm request printed its
\* full command line and spawned nothing.
C6_Witness ==
    /\ Called /\ pm.cfg.dry_run /\ result = Ok
    /\ spawned = <<>>
    /\ Len(printed) = 1
    /\ printed[1].line = "sudo apt install foo --json --yes"

\* The base program and arguments of each Conda handler.
CondaBase(op) ==
    CASE op \in {"q", "qs"}   -> <<"conda", "list">>
      [] op = "qo"            -> <<"conda", "package", "--which">>
      [] op = "r"             -> <<"conda", "remove">>
      [] op = "s"             -> <<"conda", "install">>
      [] op = "sc"            -> <<"conda", "clean", "--all">>
      [] op = "si"            -> <<"conda", "search", "--info">>
      [] op = "ss"            -> <<"conda", "search">>
      [] op \in {"su", "suy"} -> <<"conda", "update", "--all">>

CondaOps == {"q", "qo", "qs", "r", "s", "sc", "si", "ss", "su", "suy"}

\* C7 (as stated): every invocation a Conda handler passes to the facade is
\* its base program and arguments, then every keyword, then every flag, in
\* the user's order.
C7_EveryHandlerPassesKwsThenFlags ==
    (OnConda /\ call[1].op \in CondaOps) =>
        \A i \in 1..Len(plan.reqs) :
            Argv(plan.reqs[i].cmd)
              = CondaBase(call[1].op) \o call[1].kws \o call[1].flags

\* C7 (amended): qo, r, s, si, su and suy pass one invocation: base, then the
\* keywords, then the flags, in the user's order. sc ignores its keywords and
\* passes base then flags. q and qs pass `conda list` then the flags; the
\* keywords are the search patterns (q with keywords is qs), not arguments.
\* ss passes one invocation per keyword k: `conda search *k*` then the flags.
\* With no keywords and no flags each invocation is the base unchanged (and ss
\* passes none).
C7_HandlerInvocations ==
    OnConda =>
        LET op == call[1].op
            kws == call[1].kws
            flags == call[1].flags
            reqs == plan.reqs
        IN  /\ op \in {"qo", "r", "s", "si", "su", "suy"} =>
                 /\ Len(reqs) = 1
                 /\ reqs[1].cmd = [cmd |-> CondaBase(op), kws |-> kws, flags |-> flags]
                 /\ Argv(reqs[1].cmd) = CondaBase(op) \o kws \o flags
                 /\ reqs[1].pats = <<>>
            /\ op = "sc" =>
                 /\ Len(reqs) = 1
                 /\ Argv(reqs[1].cmd) = CondaBase(op) \o flags
            /\ op \in {"q", "qs"} =>
                 /\ Len(reqs) = 1
                 /\ Argv(reqs[1].cmd) = CondaBase(op) \o flags
                 /\ reqs[1].pats = kws
                 /\ reqs[1].entry = (IF op = "q" /\ kws = <<>> THEN "run"
                                     ELSE "search_regex")
            /\ op = "ss" =>
                 /\ Len(reqs) = Len(kws)
                 /\ \A i \in 1..Len(kws) :
                      Argv(reqs[i].cmd)
                        = CondaBase(op) \o <<"*" \o kws[i] \o "*">> \o flags
            /\ (op \in CondaOps /\ kws = <<>> /\ flags = <<>>) =>
                 \A i \in 1..Len(reqs) : Argv(reqs[i].cmd) = CondaBase(op)

\* C7 witness: qo with two keywords and a flag passed them in order.
C7_Witness ==
    /\ OnConda /\ call[1].op = "qo"
    /\ call[1].kws = <<"foo", "bar">> /\ call[1].flags = <<"--json">>
    /\ Len(plan.reqs) = 1
    /\ Argv(plan.reqs[1].cmd)
         = <<"conda", "package", "--which", "foo", "bar", "--json">>

\* C8: Conda qs, and q with keywords, print exactly the captured output
\* lines that match every keyword (AND, not OR), in output order.
C8_SearchKeepsLinesMatchingAllKeywords ==
    (/\ OnConda
     /\ call[1].op = "qs" \/ (call[1].op = "q" /\ call[1].kws # <<>>)
     /\ result = Ok
     /\ ~pm.cfg.dry_run) =>
        LET HasAll(line) ==
                \A k \in Range(call[1].kws) : k \in Range(line)
        IN  shown = SelectSeq(output, HasAll)

\* C8 witness: with keywords foo and bar, the line with both was printed and
\* the line with only foo was not.
C8_Witness ==
    /\ OnConda /\ call[1].op = "qs" /\ result = Ok
    /\ call[1].kws = <<"foo", "bar">>
    /\ output = << <<"foo">>, <<"foo", "bar">> >>
    /\ shown = << <<"foo", "bar">> >>

\* C9: Conda ss runs `conda search *k*` once per keyword, in keyword order
\* and one at a time (a request begins only when every earlier one returned);
\* after a request fails its error is the result and no later request
\* begins; with no keywords nothing is spawned and the result is Ok.
C9_SsIsSequentialAndStopsOnError ==
    (OnConda /\ call[1].op = "ss") =>
        LET kws == call[1].kws
            flags == call[1].flags
            mine == ThisAttempt(IF pm.cfg.dry_run THEN printed ELSE spawned)
            Want(i) == <<"conda", "search", "*" \o kws[i] \o "*">> \o flags
        IN  /\ Len(mine) <= Len(kws)
            /\ \A i \in 1..Len(mine) :
                 /\ mine[i].idx = i
                 /\ IF pm.cfg.dry_run THEN mine[i].line = Join(Want(i))
                    ELSE mine[i].argv = Want(i)
            /\ started \in {finished, finished + 1}
            /\ Cardinality(running) <= 1
            /\ running \subseteq {started}
            /\ result.kind = "Err" => (started = result.at /\ running = {})
            /\ result = Ok => (finished = Len(kws) /\ Len(mine) = Len(kws))
            /\ kws = <<>> => (result = Ok /\ mine = <<>> /\ started = 0)

\* C9 witness: the first of two searches failed and the second never began.
C9_Witness ==
    /\ OnConda /\ call[1].op = "ss" /\ call[1].kws = <<"foo", "bar">>
    /\ result.kind = "Err" /\ result.at = 1
    /\ result.error = CmdStatusCodeError(7)
    /\ Len(ThisAttempt(spawned)) = 1

====
